---- MODULE Spec2Model ----
(***************************************************************************)
(* A model of the rusterizer software rasterizer: the colour type          *)
(* (src/src/color.rs) and the canvas with its z-buffer, line drawing and   *)
(* barycentric triangle fill (src/src/drawable.rs).                        *)
(*                                                                         *)
(* Numbers.  f64 values are modelled by exact rationals <<n, d>> with      *)
(* d > 0 in lowest terms; f64::NEG_INFINITY is NegInf and the result of a  *)
(* division by a zero denominator (an infinity or a NaN) is NaN.  Rounding *)
(* of f64 arithmetic is not modelled.  Screen coordinates of Point3f are   *)
(* counted in half pixels, so that the f64 -> u32 conversion truncates.    *)
(***************************************************************************)
EXTENDS Integers, Sequences, FiniteSets, TLC

VARIABLES
    width,      \* Image.image.width()
    height,     \* Image.image.height()
    image,      \* Image.image: the colour of pixel <<x, y>>
    z_buffer,   \* Image.z_buffer: Vec<f64>, index i of the Vec is z_buffer[i + 1]
    panicked,   \* the process has panicked (index out of bounds)
    nOps,       \* number of operations done so far
    call,       \* the last operation and its arguments
    ret,        \* the value the last operation returned
    written,    \* the pixels written by the last operation, in order
    scanned,    \* the coordinates the last fill passed to check_and_set_zbuf
    offered,    \* history: the largest z offered so far at pixel <<x, y>>
    expected    \* history: the colour resolved by the earliest fill that
                \* offered the largest z at pixel <<x, y>>

vars == <<width, height, image, z_buffer, panicked, nOps, call, ret, written,
          scanned, offered, expected>>

----------------------------------------------------------------------------
(* Bounds of the model. *)

MaxDim == 3          \* canvases are 1..MaxDim wide and high
MaxFills == 2        \* triangle fills in one run
MaxCalls == 3        \* direct canvas calls in one run
MaxZ == 2            \* depths offered directly are 0..MaxZ
MaxLineDim == 6      \* canvases for line drawing are 1..MaxLineDim wide and high
RandLen == 2         \* period of the random colour stream
MaxFactorNum == 4    \* scale factors are -1/2, 0, 1/2, ..., MaxFactorNum/2
MaxBaryCoord == 3    \* barycentric inputs have coordinates 0..MaxBaryCoord

(* Program constants. *)

U8Max == 255               \* u8::MAX, the range of a colour channel
LimitDen == 1000000000     \* LIMIT = 1e-9 = 1 / LimitDen

----------------------------------------------------------------------------
(* Arithmetic helpers. *)

Abs(a) == IF a < 0 THEN -a ELSE a

Sign(a) == IF a < 0 THEN -1 ELSE IF a > 0 THEN 1 ELSE 0

RECURSIVE Gcd(_, _)
Gcd(a, b) == IF b = 0 THEN a ELSE Gcd(b, a % b)

NegInf == <<-1, 0>>
NaN == <<0, 0>>

IsNum(a) == a[2] > 0

\* n / d as an f64: a rational in lowest terms, NaN (or an infinity) when d = 0
RDiv(n, d) ==
    IF d = 0 THEN NaN
    ELSE LET g == Gcd(Abs(n), Abs(d))
         IN  <<Sign(d) * (n \div g), Abs(d) \div g>>

RInt(n) == <<n, 1>>
RAdd(a, b) == RDiv(a[1] * b[2] + b[1] * a[2], a[2] * b[2])
RSub(a, b) == RDiv(a[1] * b[2] - b[1] * a[2], a[2] * b[2])
RMul(a, b) == RDiv(a[1] * b[1], a[2] * b[2])

\* a < b on f64: false when either side is NaN
RLess(a, b) ==
    IF a = NaN \/ b = NaN THEN FALSE
    ELSE IF a = NegInf THEN b # NegInf
    ELSE IF b = NegInf THEN FALSE
    ELSE a[1] * b[2] < b[1] * a[2]

RMax(a, b) == IF RLess(a, b) THEN b ELSE a

----------------------------------------------------------------------------
(* color.rs *)

WHITE == <<U8Max, U8Max, U8Max>>
BLACK == <<0, 0, 0>>

\* f64::max(x, 0.0)
max_zero(x) == IF RLess(x, RInt(0)) THEN RInt(0) ELSE x

\* `v as u8` with the cast wrapping modulo 256 instead of saturating
as_u8_wrapping(v) == (v[1] \div v[2]) % (U8Max + 1)

\* `v as u8` for a non-negative f64: the fraction is dropped and the value
\* saturates at u8::MAX
as_u8(v) ==
    LET t == v[1] \div v[2]
    IN  IF t > U8Max THEN U8Max ELSE t

\* Color::scale
scale(color, x) ==
    LET f == max_zero(x)
    IN  <<as_u8(RMul(RInt(color[1]), f)),
          as_u8(RMul(RInt(color[2]), f)),
          as_u8(RMul(RInt(color[3]), f))>>

----------------------------------------------------------------------------
(* drawable.rs: barycentric coordinates.  A point is <<x, y, z>>. *)

\* the weights with the second term of lambda2 taken as (p.y - p3.y)
barycentric_flipped(p1, p2, p3, p) ==
    LET denom == (p1[1] - p3[1]) * (p2[2] - p3[2]) - (p1[2] - p3[2]) * (p2[1] - p3[1])
        lambda1 == RDiv((p[1] - p3[1]) * (p2[2] - p3[2]) + (p3[1] - p2[1]) * (p[2] - p3[2]), denom)
        lambda2 == RDiv((p3[1] - p[1]) * (p1[2] - p3[2]) + (p3[1] - p1[1]) * (p[2] - p3[2]), denom)
    IN  IF denom = 0 THEN <<NaN, NaN, NaN>>
        ELSE <<lambda1, lambda2, RSub(RSub(RInt(1), lambda1), lambda2)>>

barycentric(p1, p2, p3, p) ==
    LET denom == (p1[1] - p3[1]) * (p2[2] - p3[2]) - (p1[2] - p3[2]) * (p2[1] - p3[1])
        lambda1 == RDiv((p[1] - p3[1]) * (p2[2] - p3[2]) + (p3[1] - p2[1]) * (p[2] - p3[2]), denom)
        lambda2 == RDiv((p3[1] - p[1]) * (p1[2] - p3[2]) + (p3[1] - p1[1]) * (p3[2] - p[2]), denom)
    IN  IF denom = 0 THEN <<NaN, NaN, NaN>>
        ELSE <<lambda1, lambda2, RSub(RSub(RInt(1), lambda1), lambda2)>>

----------------------------------------------------------------------------
(* drawable.rs: the canvas. *)

Pixels(w, h) == (0 .. w - 1) \X (0 .. h - 1)

\* RgbImage::new: every pixel is zero
new_image(w, h) == [p \in Pixels(w, h) |-> BLACK]

\* vec![f64::NEG_INFINITY; (width * height) as usize]
new_z_buffer(w, h) == [i \in 1 .. w * h |-> NegInf]

\* the index check_and_set_zbuf computes for pixel (x, y)
zbuf_index(h, x, y) == y * h + x

\* Image::check_and_set_zbuf on z-buffer zb of a canvas of height h; indexing
\* the Vec out of bounds panics
check_and_set_zbuf(zb, h, x, y, z_value) ==
    LET idx == zbuf_index(h, x, y)
    IN  IF idx >= Len(zb) THEN [panic |-> TRUE, ret |-> FALSE, zb |-> zb]
        ELSE IF RLess(zb[idx + 1], z_value)
             THEN [panic |-> FALSE, ret |-> TRUE, zb |-> [zb EXCEPT ![idx + 1] = z_value]]
             ELSE [panic |-> FALSE, ret |-> FALSE, zb |-> zb]

\* RgbImage::put_pixel panics outside the image
in_image(img, x, y) == <<x, y>> \in DOMAIN img

----------------------------------------------------------------------------
(* drawable.rs: Image::line. *)

abs_diff(a, b) == Abs(a - b)

\* a line that is never treated as steep
line_steep_never(x0, y0, x1, y1) == FALSE

line_steep(x0, y0, x1, y1) == abs_diff(x0, x1) < abs_diff(y0, y1)

\* the endpoints <<x0, y0, x1, y1>> after the swap of x and y of a steep line
line_transpose(steep, x0, y0, x1, y1) ==
    IF steep THEN <<y0, x0, y1, x1>> ELSE <<x0, y0, x1, y1>>

\* the ordering step swapping the x coordinates only
line_order_x_only(e) == IF e[1] > e[3] THEN <<e[3], e[2], e[1], e[4]>> ELSE e

\* if x0 > x1 { swap(x0, x1); swap(y0, y1) }
line_order(e) == IF e[1] > e[3] THEN <<e[3], e[4], e[1], e[2]>> ELSE e

\* for x in x0..=x1: the pixels put, in order
RECURSIVE line_loop(_, _, _, _, _, _, _, _)
line_loop(x, x1, y, error2, dx, dy, steep, acc) ==
    IF x > x1 THEN acc
    ELSE LET px == IF steep THEN <<y, x>> ELSE <<x, y>>
             e  == error2 + Abs(dy) * 2
             step == e > dx
         IN  line_loop(x + 1, x1,
                       IF step THEN y + Sign(dy) ELSE y,
                       IF step THEN e - dx * 2 ELSE e,
                       dx, dy, steep, Append(acc, px))

\* the pixels Image::line puts for the endpoints (x0, y0), (x1, y1), in order
line_pixels(x0, y0, x1, y1) ==
    LET steep == line_steep(x0, y0, x1, y1)
        e == line_order(line_transpose(steep, x0, y0, x1, y1))
    IN  line_loop(e[1], e[3], e[2], 0, e[3] - e[1], e[4] - e[2], steep, <<>>)

\* put_pixel for each pixel of pxs from index i on, stopping at a panic
RECURSIVE put_pixels(_, _, _, _)
put_pixels(c, pxs, i, color) ==
    IF i > Len(pxs) \/ c.panic THEN c
    ELSE LET px == pxs[i]
         IN  IF ~in_image(c.img, px[1], px[2])
             THEN [c EXCEPT !.panic = TRUE]
             ELSE put_pixels([c EXCEPT !.img = [@ EXCEPT ![px] = color],
                                       !.written = Append(@, <<px[1], px[2], color>>)],
                             pxs, i + 1, color)

----------------------------------------------------------------------------
(* drawable.rs: triangle_barycentric.  The x and y of a Point3f are counted *)
(* in half pixels; its z is an integer.                                     *)

\* `v as u32` of an f64 coordinate: negative values give 0, the fraction is dropped
as_u32(v) == IF v < 0 THEN 0 ELSE v \div 2

\* `x as f64` of a u32 pixel coordinate
as_f64(x) == x * 2

\* Point::min and Point::max, component by component
point_min(a, b) ==
    <<IF a[1] < b[1] THEN a[1] ELSE b[1],
      IF a[2] < b[2] THEN a[2] ELSE b[2],
      IF a[3] < b[3] THEN a[3] ELSE b[3]>>

point_max(a, b) ==
    <<IF a[1] > b[1] THEN a[1] ELSE b[1],
      IF a[2] > b[2] THEN a[2] ELSE b[2],
      IF a[3] > b[3] THEN a[3] ELSE b[3]>>

\* a corner coordinate left as it is, without the clamp to the canvas
clamp_missing(v, limit) == v

\* v.min(limit): a corner coordinate clamped to width - 1 or height - 1
clamp(v, limit) == IF v < limit THEN v ELSE limit

\* the corners <<min x, min y, max x, max y>> of the box the fill scans
scan_box(w, h, p1, p2, p3) ==
    LET min_p == point_min(point_min(p1, p2), p3)
        max_p == point_max(point_max(p1, p2), p3)
    IN  <<clamp(as_u32(min_p[1]), w - 1), clamp(as_u32(min_p[2]), h - 1),
          clamp(as_u32(max_p[1]), w - 1), clamp(as_u32(max_p[2]), h - 1)>>

\* for y in min_p.y..=max_p.y { for x in min_p.x..=max_p.x: the pixels in order
scan_order(box) ==
    LET nx == box[3] - box[1] + 1
        ny == box[4] - box[2] + 1
    IN  IF nx <= 0 \/ ny <= 0 THEN <<>>
        ELSE [i \in 1 .. nx * ny |-> <<box[1] + ((i - 1) % nx), box[2] + ((i - 1) \div nx)>>]

\* a >= -LIMIT on f64; false for NaN
geq_neg_limit(a) == IsNum(a) /\ (a[1] >= 0 \/ -a[1] <= a[2] \div LimitDen)

\* a >= -LIMIT && b >= -LIMIT && c >= -LIMIT
inside(w) == geq_neg_limit(w[1]) /\ geq_neg_limit(w[2]) /\ geq_neg_limit(w[3])

\* z = a * p1.z + b * p2.z + c * p3.z
interpolate_z(w, p1, p2, p3) ==
    RAdd(RAdd(RMul(w[1], RInt(p1[3])), RMul(w[2], RInt(p2[3]))), RMul(w[3], RInt(p3[3])))

\* the k-th colour (k = 0, 1, ...) Color::random() returns during a fill, for
\* the stream rnd of random colours
random(rnd, k) == rnd[(k % Len(rnd)) + 1]

\* determine_color for the styles Filled and FilledRandom; draws is the number
\* of random colours drawn before
determine_color(style, intensity, rnd, draws) ==
    IF style.kind = "Filled" THEN scale(style.color, intensity)
    ELSE scale(random(rnd, draws), intensity)

\* the body of the two loops of triangle_barycentric for pixel (x, y), on the
\* canvas state c
fill_pixel(c, h, x, y, p1, p2, p3, style, intensity, rnd) ==
    LET w == barycentric(p1, p2, p3, <<as_f64(x), as_f64(y), 0>>)
    IN  IF ~inside(w) THEN c
        ELSE
          LET z == interpolate_z(w, p1, p2, p3)
              r == check_and_set_zbuf(c.zb, h, x, y, z)
              color == determine_color(style, intensity, rnd, c.draws)
              put == r.ret /\ in_image(c.img, x, y)
              first == <<x, y>> \in DOMAIN c.offered /\ RLess(c.offered[<<x, y>>], z)
              resolved == IF put THEN color
                          ELSE IF style.kind = "Filled" THEN scale(style.color, intensity)
                          ELSE <<>>
          IN  [zb |-> r.zb,
               img |-> IF put THEN [c.img EXCEPT ![<<x, y>>] = color] ELSE c.img,
               panic |-> r.panic \/ (r.ret /\ ~in_image(c.img, x, y)),
               written |-> IF put THEN Append(c.written, <<x, y, color>>) ELSE c.written,
               scanned |-> Append(c.scanned, <<x, y>>),
               draws |-> IF r.ret THEN c.draws + 1 ELSE c.draws,
               offered |-> IF first THEN [c.offered EXCEPT ![<<x, y>>] = z] ELSE c.offered,
               expected |-> IF first THEN [c.expected EXCEPT ![<<x, y>>] = resolved]
                            ELSE c.expected]

\* the two loops of triangle_barycentric over the pixels pxs from index i on;
\* a panic ends the fill
RECURSIVE fill_loop(_, _, _, _, _, _, _, _, _, _)
fill_loop(c, h, pxs, i, p1, p2, p3, style, intensity, rnd) ==
    IF i > Len(pxs) \/ c.panic THEN c
    ELSE fill_loop(fill_pixel(c, h, pxs[i][1], pxs[i][2], p1, p2, p3, style, intensity, rnd),
                   h, pxs, i + 1, p1, p2, p3, style, intensity, rnd)

triangle_barycentric(c, w, h, p1, p2, p3, style, intensity, rnd) ==
    fill_loop(c, h, scan_order(scan_box(w, h, p1, p2, p3)), 1,
              p1, p2, p3, style, intensity, rnd)

----------------------------------------------------------------------------
(* Inputs. *)

GREY == <<50, 50, 50>>
RED == <<U8Max, 0, 0>>
BLUE == <<0, 0, U8Max>>

\* the colours Color::random() may return
RandomColors == {RED, BLUE}

\* the streams of colours Color::random() returns during one fill
RandomStreams == [1 .. RandLen -> RandomColors]

\* the draw styles of triangle_barycentric that are modelled; Textured is not
FillStyles == {[kind |-> "Filled", color |-> WHITE], [kind |-> "FilledRandom", color |-> BLACK]}

Intensities == {RDiv(1, 2), RInt(1)}

\* the vertices of the triangles filled, x and y in half pixels: the corners
\* of a square reaching one pixel below zero and up to pixel MaxDim, which is
\* beyond every canvas, and a point inside the smallest canvas
VertexA == <<-2, -2, 0>>
VertexB == <<2 * MaxDim, -2, 1>>
VertexC == <<-2, 2 * MaxDim, 1>>
VertexD == <<2 * MaxDim, 2 * MaxDim, 0>>
VertexE == <<1, 1, 2>>

\* the triangles filled: the halves of the square in both windings, triangles
\* with a vertex inside the canvas, and two degenerate ones (collinear
\* vertices, a repeated vertex)
FillTriangles ==
    {<<VertexA, VertexB, VertexC>>, <<VertexD, VertexC, VertexB>>,
     <<VertexA, VertexB, VertexD>>, <<VertexC, VertexA, VertexD>>,
     <<VertexE, VertexA, VertexB>>, <<VertexA, VertexC, VertexE>>,
     <<VertexB, VertexE, VertexD>>, <<VertexA, VertexE, VertexD>>,
     <<VertexA, VertexA, VertexB>>}

\* scale factors -1/2, 0, 1/2, ..., MaxFactorNum / 2
Factors == {RDiv(n, 2) : n \in -1 .. MaxFactorNum}

\* colours whose channels each take every value 0..255, and white
ScaleColors ==
    {<<r, (r + 85) % (U8Max + 1), (r + 170) % (U8Max + 1)>> : r \in 0 .. U8Max} \cup {WHITE}

BaryPoints == {<<x, y, 0>> : x \in 0 .. MaxBaryCoord, y \in 0 .. MaxBaryCoord}

----------------------------------------------------------------------------
(* States. *)

\* Image::new(w, h)
NewCanvas(w, h) ==
    /\ width = w
    /\ height = h
    /\ image = new_image(w, h)
    /\ z_buffer = new_z_buffer(w, h)
    /\ panicked = FALSE
    /\ nOps = 0
    /\ written = <<>>
    /\ scanned = <<>>
    /\ offered = [p \in Pixels(w, h) |-> NegInf]
    /\ expected = [p \in Pixels(w, h) |-> <<>>]

\* the canvas as the operators above take it
Canvas ==
    [zb |-> z_buffer, img |-> image, panic |-> FALSE, written |-> <<>>,
     scanned |-> <<>>, draws |-> 0, offered |-> offered, expected |-> expected]

Store(c) ==
    /\ z_buffer' = c.zb
    /\ image' = c.img
    /\ panicked' = c.panic
    /\ written' = c.written
    /\ scanned' = c.scanned
    /\ offered' = c.offered
    /\ expected' = c.expected
    /\ nOps' = nOps + 1
    /\ UNCHANGED <<width, height>>

----------------------------------------------------------------------------
(* The canvas under triangle fills. *)

Init ==
    /\ \E w \in 1 .. MaxDim, h \in 1 .. MaxDim : NewCanvas(w, h)
    /\ call = [op |-> "new"]
    /\ ret = FALSE

\* Image::triangle with a style other than Wireframe
Triangle ==
    /\ nOps < MaxFills
    /\ ~panicked
    /\ \E t \in FillTriangles, style \in FillStyles, intensity \in Intensities,
          rnd \in RandomStreams :
          /\ style.kind = "Filled" => \A i \in DOMAIN rnd : rnd[i] = RED
          /\ call' = [op |-> "triangle", p1 |-> t[1], p2 |-> t[2], p3 |-> t[3],
                      style |-> style, intensity |-> intensity, done |-> TRUE]
          /\ ret' = FALSE
          /\ Store(triangle_barycentric(Canvas, width, height, t[1], t[2], t[3],
                                        style, intensity, rnd))

Next == Triangle

Spec == Init /\ [][Next]_vars

----------------------------------------------------------------------------
(* One fill of a new canvas, over a grid of vertices around the canvas. *)

\* vertex coordinates in half pixels: below zero, inside the smallest canvas,
\* and around the far edge of the largest
ScanCoords == {-2, 1, 2 * MaxDim - 1, 2 * MaxDim + 1}

ScanVertices == {<<x, y, 0>> : x \in ScanCoords, y \in ScanCoords}

InitScan ==
    /\ \E w \in 1 .. MaxDim, h \in 1 .. MaxDim : NewCanvas(w, h)
    /\ \E p1 \in ScanVertices, p2 \in ScanVertices, p3 \in ScanVertices :
          call = [op |-> "triangle", p1 |-> p1, p2 |-> p2, p3 |-> p3,
                  style |-> [kind |-> "Filled", color |-> WHITE],
                  intensity |-> RInt(1), done |-> FALSE]
    /\ ret = FALSE

\* Image::triangle with the style Filled
Scan ==
    /\ call.op = "triangle"
    /\ ~call.done
    /\ call' = [call EXCEPT !.done = TRUE]
    /\ ret' = FALSE
    /\ Store(triangle_barycentric(Canvas, width, height, call.p1, call.p2, call.p3,
                                  call.style, call.intensity, <<RED>>))

NextScan == Scan

SpecScan == InitScan /\ [][NextScan]_vars

----------------------------------------------------------------------------
(* The canvas under direct calls. *)

\* Image::check_and_set_zbuf at an in-bounds pixel
CheckAndSetZbuf ==
    /\ nOps < MaxCalls
    /\ ~panicked
    /\ UNCHANGED <<width, height, image, written, scanned, expected>>
    /\ \E x \in 0 .. width - 1, y \in 0 .. height - 1, zi \in 0 .. MaxZ :
          LET r == check_and_set_zbuf(z_buffer, height, x, y, RInt(zi))
          IN  /\ z_buffer' = r.zb
              /\ panicked' = r.panic
              /\ ret' = r.ret
              /\ call' = [op |-> "check_and_set_zbuf", x |-> x, y |-> y, z |-> RInt(zi),
                          prev |-> offered[<<x, y>>],
                          changed |-> (r.zb # z_buffer \/ image' # image)]
              /\ offered' = [offered EXCEPT ![<<x, y>>] = RMax(@, RInt(zi))]
    /\ nOps' = nOps + 1

\* Image::point at an in-bounds pixel
Point ==
    /\ nOps < MaxCalls
    /\ ~panicked
    /\ \E x \in 0 .. width - 1, y \in 0 .. height - 1 :
          /\ image' = [image EXCEPT ![<<x, y>>] = WHITE]
          /\ call' = [op |-> "point", x |-> x, y |-> y, color |-> WHITE]
          /\ written' = << <<x, y, WHITE>> >>
    /\ ret' = FALSE
    /\ nOps' = nOps + 1
    /\ UNCHANGED <<width, height, z_buffer, panicked, scanned, offered, expected>>

\* Image::clear
Clear ==
    /\ nOps < MaxCalls
    /\ ~panicked
    /\ image' = [p \in DOMAIN image |-> GREY]
    /\ call' = [op |-> "clear", color |-> GREY]
    /\ written' = <<>>
    /\ ret' = FALSE
    /\ nOps' = nOps + 1
    /\ UNCHANGED <<width, height, z_buffer, panicked, scanned, offered, expected>>

NextZbuf == CheckAndSetZbuf \/ Point \/ Clear

SpecZbuf == Init /\ [][NextZbuf]_vars

----------------------------------------------------------------------------
(* The canvas under line drawing. *)

InitLine ==
    /\ \E w \in 1 .. MaxLineDim, h \in 1 .. MaxLineDim :
          /\ NewCanvas(w, h)
          /\ \E x0 \in 0 .. w - 1, y0 \in 0 .. h - 1, x1 \in 0 .. w - 1, y1 \in 0 .. h - 1 :
                call = [op |-> "line", x0 |-> x0, y0 |-> y0, x1 |-> x1, y1 |-> y1,
                        color |-> WHITE, done |-> FALSE]
    /\ ret = FALSE

\* Image::line between two pixels of the canvas
Line ==
    /\ call.op = "line"
    /\ ~call.done
    /\ call' = [call EXCEPT !.done = TRUE]
    /\ Store(put_pixels(Canvas, line_pixels(call.x0, call.y0, call.x1, call.y1), 1,
                        call.color))
    /\ ret' = FALSE

NextLine == Line

SpecLine == InitLine /\ [][NextLine]_vars

----------------------------------------------------------------------------
(* Color::scale and barycentric as functions of their arguments. *)

NoCanvas ==
    /\ width = 0
    /\ height = 0
    /\ image = new_image(0, 0)
    /\ z_buffer = <<>>
    /\ panicked = FALSE
    /\ nOps = 0
    /\ written = <<>>
    /\ scanned = <<>>
    /\ offered = new_image(0, 0)
    /\ expected = new_image(0, 0)

InitColor ==
    /\ NoCanvas
    /\ \E color \in ScaleColors, x \in Factors :
          call = [op |-> "scale", color |-> color, x |-> x, done |-> FALSE]
    /\ ret = BLACK

Scale ==
    /\ call.op = "scale"
    /\ ~call.done
    /\ call' = [call EXCEPT !.done = TRUE]
    /\ ret' = scale(call.color, call.x)
    /\ UNCHANGED <<width, height, image, z_buffer, panicked, nOps, written, scanned,
                   offered, expected>>

NextColor == Scale

SpecColor == InitColor /\ [][NextColor]_vars

InitBary ==
    /\ NoCanvas
    /\ \E p1 \in BaryPoints, p2 \in BaryPoints, p3 \in BaryPoints, p \in BaryPoints :
          call = [op |-> "barycentric", p1 |-> p1, p2 |-> p2, p3 |-> p3, p |-> p,
                  done |-> FALSE]
    /\ ret = <<NaN, NaN, NaN>>

Barycentric ==
    /\ call.op = "barycentric"
    /\ ~call.done
    /\ call' = [call EXCEPT !.done = TRUE]
    /\ ret' = barycentric(call.p1, call.p2, call.p3, call.p)
    /\ UNCHANGED <<width, height, image, z_buffer, panicked, nOps, written, scanned,
                   offered, expected>>

NextBary == Barycentric

SpecBary == InitBary /\ [][NextBary]_vars

----------------------------------------------------------------------------
(* Properties. *)

Min(a, b) == IF a < b THEN a ELSE b
Max(a, b) == IF a > b THEN a ELSE b

IsCheck == call.op = "check_and_set_zbuf"
IsFill == call.op = "triangle" /\ call.done
IsLine == call.op = "line" /\ call.done
IsScale == call.op = "scale" /\ call.done
IsBary == call.op = "barycentric" /\ call.done

\* C1: a call of check_and_set_zbuf at an in-bounds pixel returns true exactly
\* when z is strictly greater than the largest depth offered at that pixel
\* before, and a call that returns false changes neither grid; no call panics.
C1_DepthTest ==
    IsCheck =>
        /\ ~panicked
        /\ ret = RLess(call.prev, call.z)
        /\ ~ret => ~call.changed

\* C2: on a canvas of any width and height, the depth cell y * width + x of
\* every pixel holds the largest z ever offered at that pixel (negative
\* infinity if none), and no call indexes outside the grid.
C2_DepthIsMaxOffered ==
    /\ ~panicked
    /\ \A p \in Pixels(width, height) : z_buffer[p[2] * width + p[1] + 1] = offered[p]

\* On square canvases the depth test is strict and each pixel has its own cell.
DepthTestOnSquare == width = height => C1_DepthTest /\ C2_DepthIsMaxOffered

\* C3: after any sequence of fills, every pixel has the colour resolved by the
\* earliest fill that covered it with the largest interpolated z, and a pixel
\* no fill covered keeps its colour.
C3_EarliestNearestWins ==
    /\ ~panicked
    /\ \A p \in DOMAIN image :
          image[p] = IF offered[p] = NegInf THEN BLACK ELSE expected[p]

\* On square canvases the fills resolve visibility as C3 states.
NearestWinsOnSquare == width = height => C3_EarliestNearestWins

\* C4: line writes exactly max(|x1 - x0|, |y1 - y0|) + 1 pixels, one for each
\* coordinate of the major axis between the endpoints, none of them twice.
C4_LinePixelCount ==
    IsLine =>
        LET adx == Abs(call.x1 - call.x0)
            ady == Abs(call.y1 - call.y0)
            major == IF adx >= ady THEN 1 ELSE 2
            lo == IF major = 1 THEN Min(call.x0, call.x1) ELSE Min(call.y0, call.y1)
            hi == IF major = 1 THEN Max(call.x0, call.x1) ELSE Max(call.y0, call.y1)
        IN  /\ ~panicked
            /\ Len(written) = Max(adx, ady) + 1
            /\ {written[i][major] : i \in DOMAIN written} = lo .. hi

C4_Witness ==
    /\ IsLine
    /\ Abs(call.y1 - call.y0) > Abs(call.x1 - call.x0)
    /\ call.x1 # call.x0
    /\ Len(written) >= 3

\* C5: line(A, B) and line(B, A) write the same set of pixels.
C5_LineSymmetric ==
    IsLine =>
        LET back == line_pixels(call.x1, call.y1, call.x0, call.y0)
        IN  {<<written[i][1], written[i][2]>> : i \in DOMAIN written}
                = {back[i] : i \in DOMAIN back}

C5_Witness ==
    /\ IsLine
    /\ call.x0 > call.x1
    /\ call.y0 # call.y1
    /\ Abs(call.x1 - call.x0) # Abs(call.y1 - call.y0)
    /\ Len(written) >= 3

\* C6: every coordinate a fill passes to check_and_set_zbuf or point lies in
\* the bounding box of the three vertices clamped to the canvas, so
\* 0 <= x < width and 0 <= y < height.
C6_ScanInsideCanvas ==
    IsFill =>
        LET xs == {call.p1[1], call.p2[1], call.p3[1]}
            ys == {call.p1[2], call.p2[2], call.p3[2]}
            Floor0(v) == IF v < 0 THEN 0 ELSE v \div 2
            MinOf(S) == CHOOSE v \in S : \A u \in S : v <= u
            MaxOf(S) == CHOOSE v \in S : \A u \in S : v >= u
            InBox(x, y) ==
                /\ 0 <= x /\ x < width /\ 0 <= y /\ y < height
                /\ Min(Floor0(MinOf(xs)), width - 1) <= x
                /\ x <= Min(Floor0(MaxOf(xs)), width - 1)
                /\ Min(Floor0(MinOf(ys)), height - 1) <= y
                /\ y <= Min(Floor0(MaxOf(ys)), height - 1)
        IN  /\ \A i \in DOMAIN scanned : InBox(scanned[i][1], scanned[i][2])
            /\ \A i \in DOMAIN written : InBox(written[i][1], written[i][2])

C6_Witness ==
    /\ IsFill
    /\ \E v \in {call.p1, call.p2, call.p3} : v[1] < 0 /\ v[2] < 0
    /\ \E v \in {call.p1, call.p2, call.p3} : v[1] > 2 * width /\ v[2] > 2 * height
    /\ Len(scanned) >= 2
    /\ Len(written) >= 2

\* C7: every pixel written by one triangle call with the FilledRandom style
\* gets the same colour.
C7_OneRandomColourPerTriangle ==
    (IsFill /\ call.style.kind = "FilledRandom") =>
        \A i, j \in DOMAIN written : written[i][3] = written[j][3]

\* the product c * max(x, 0), rounded down
ScaledChannel(c, x) == IF x[1] < 0 THEN 0 ELSE (c * x[1]) \div x[2]

\* C8, as stated: scale maps each channel c to floor(c * max(factor, 0))
\* narrowed to 8 bits by taking the value modulo 256.
C8_ScaleWraps ==
    IsScale =>
        \A ch \in 1 .. 3 : ret[ch] = ScaledChannel(call.color[ch], call.x) % (U8Max + 1)

\* C8, amended: scale maps each channel c to floor(c * max(factor, 0))
\* saturated at 255; a negative factor gives 0 and (255,255,255) scaled by
\* 0.5 gives (127,127,127).
C8_ScaleSaturates ==
    IsScale =>
        /\ \A ch \in 1 .. 3 : ret[ch] = Min(ScaledChannel(call.color[ch], call.x), U8Max)
        /\ call.x[1] < 0 => ret = BLACK
        /\ (call.color = WHITE /\ call.x = RDiv(1, 2)) => ret = <<127, 127, 127>>

C8_Witness ==
    /\ IsScale
    /\ call.color = WHITE
    /\ call.x = RDiv(3, 2)
    /\ ret = WHITE

\* twice the signed area of the triangle (a, b, c)
Orient(a, b, c) == (b[1] - a[1]) * (c[2] - a[2]) - (b[2] - a[2]) * (c[1] - a[1])

NonDegenerate == Orient(call.p1, call.p2, call.p3) # 0

\* p lies outside the closed triangle: it is strictly on the far side of an edge
Outside(p1, p2, p3, p) ==
    LET o == Sign(Orient(p1, p2, p3))
    IN  \/ o * Orient(p1, p2, p) < 0
        \/ o * Orient(p2, p3, p) < 0
        \/ o * Orient(p3, p1, p) < 0

\* C9: for a non-degenerate triangle the weights sum to 1, are (1,0,0),
\* (0,1,0), (0,0,1) at p1, p2, p3, and one of them is negative at every point
\* outside the triangle.
C9_BarycentricWeights ==
    (IsBary /\ NonDegenerate) =>
        /\ RAdd(RAdd(ret[1], ret[2]), ret[3]) = RInt(1)
        /\ call.p = call.p1 => ret = <<RInt(1), RInt(0), RInt(0)>>
        /\ call.p = call.p2 => ret = <<RInt(0), RInt(1), RInt(0)>>
        /\ call.p = call.p3 => ret = <<RInt(0), RInt(0), RInt(1)>>
        /\ Outside(call.p1, call.p2, call.p3, call.p) =>
              \E i \in 1 .. 3 : RLess(ret[i], RInt(0))

C9_Witness ==
    /\ IsBary
    /\ NonDegenerate
    /\ Outside(call.p1, call.p2, call.p3, call.p)
    /\ \E i \in 1 .. 3 : RLess(RInt(0), ret[i]) /\ RLess(ret[i], RInt(1))

\* the weights <<a, b, 1 - a - b>> for the numerators na and nb over denom
Weights(na, nb, denom) ==
    <<RDiv(na, denom), RDiv(nb, denom), RDiv(denom - na - nb, denom)>>

\* C10, as stated: b = ((x3-px)(y1-y3) + (x3-x1)(py-y3)) / denom.
C10_SpecFormula ==
    (IsBary /\ NonDegenerate) =>
        LET x1 == call.p1[1]  y1 == call.p1[2]
            x2 == call.p2[1]  y2 == call.p2[2]
            x3 == call.p3[1]  y3 == call.p3[2]
            px == call.p[1]   py == call.p[2]
            denom == (x1 - x3) * (y2 - y3) - (y1 - y3) * (x2 - x3)
        IN  ret = Weights((px - x3) * (y2 - y3) + (x3 - x2) * (py - y3),
                          (x3 - px) * (y1 - y3) + (x3 - x1) * (py - y3), denom)

\* C10, amended: denom = (x1-x3)(y2-y3) - (y1-y3)(x2-x3),
\* a = ((px-x3)(y2-y3) + (x3-x2)(py-y3)) / denom,
\* b = ((x3-px)(y1-y3) - (x3-x1)(py-y3)) / denom, c = 1 - a - b.
C10_SignedAreaWeights ==
    (IsBary /\ NonDegenerate) =>
        LET x1 == call.p1[1]  y1 == call.p1[2]
            x2 == call.p2[1]  y2 == call.p2[2]
            x3 == call.p3[1]  y3 == call.p3[2]
            px == call.p[1]   py == call.p[2]
            denom == (x1 - x3) * (y2 - y3) - (y1 - y3) * (x2 - x3)
        IN  ret = Weights((px - x3) * (y2 - y3) + (x3 - x2) * (py - y3),
                          (x3 - px) * (y1 - y3) - (x3 - x1) * (py - y3), denom)

C10_Witness ==
    /\ IsBary
    /\ NonDegenerate
    /\ (call.p3[1] - call.p1[1]) * (call.p[2] - call.p3[2]) # 0

====
